---- MODULE Spec2Model ----
(***************************************************************************)
(* Career guidance backend: course applications (routes/students.js), job  *)
(* applicant ranking and job notification fan-out (company routes).        *)
(***************************************************************************)
EXTENDS Integers, Sequences, FiniteSets, Bags, TLC

\* ------------------------------------------------------------------------
\* Bounds and identities
\* ------------------------------------------------------------------------
MaxApps == 3

Students == {"s1", "s2"}
\* company-role accounts: emp1 administers company co1, emp2 has no company document
Employers == {"emp1", "emp2"}
companies == [co1 |-> [adminId |-> "emp1", name |-> "Acme"]]
Institutions == {"uni_001", "uni_002"}
Reqs == {"r1", "r2"}
\* the student whose submissions are followed
Served == {"s1"}

\* courses collection: id -> institutionId (seeded catalogue)
courses == [c1 |-> "uni_001", c2 |-> "uni_002"]

\* request bodies a client can send: "" is a missing field, c0 an unknown course,
\* <<c1, uni_002>> a course of another institution
Bodies == {<<"", "uni_001">>, <<"c0", "uni_001">>, <<"c1", "uni_001">>,
           <<"c2", "uni_002">>, <<"c1", "uni_002">>}

AppStatuses == {"pending", "admitted", "rejected", "withdrawn"}

MaxPerInstitution == 2

MsgRequired == "Course ID and Institution ID are required"
MsgLimit == "Maximum of 2 applications per institution allowed"
MsgAdmitted == "You are already admitted to an institution"
MsgCourseNotFound == "Course not found"
MsgCourseMismatch == "Course does not belong to selected institution"
MsgFailed == "Failed to submit application"
MsgSubmitted == "Application submitted successfully"

VARIABLES
    applications,   \* applications collection: sequence of documents, id = index
    notifications,  \* notifications collection: bag of documents (ids are never read)
    req,            \* POST /applications handlers: position, locals and response
    users,          \* users collection: uid -> role and profile
    transcripts,    \* transcripts collection: set of documents
    jobs,           \* jobs collection: sequence of documents, id = index
    jobApplications,\* jobApplications collection: set of documents
    listings,       \* responses of GET /jobs/:jobId/applicants, oldest first
    post,           \* POST /jobs handler: position, locals and response
    calls,          \* account and guarded-route handlers: position, locals and response
    config          \* process.env of the server

dataVars == <<users, transcripts, jobApplications>>
\* what the course application handlers never touch
authVars == <<calls, config>>
jobVars == <<users, transcripts, jobApplications, jobs, listings, post, authVars>>
vars == <<applications, notifications, req, users, transcripts, jobs,
          jobApplications, listings, post, calls, config>>

Calls == {"k1", "k2"}

\* a bearer / id token as verifyIdToken sees it
NoToken == [present |-> FALSE, valid |-> FALSE, uid |-> "", email_verified |-> FALSE]
ForgedToken == [present |-> TRUE, valid |-> FALSE, uid |-> "s1", email_verified |-> TRUE]
Token(u, v) == [present |-> TRUE, valid |-> TRUE, uid |-> u, email_verified |-> v]

\* the part of an application a response can carry
NoBody == [studentId |-> "", courseId |-> "", institutionId |-> "", status |-> ""]

IdleCall == [pc |-> "idle", route |-> "", token |-> NoToken, uid |-> "", role |-> "",
             firstName |-> "", adminCode |-> "", param |-> 0, code |-> 0,
             body |-> NoBody]

\* logged: what console.error received in notifyQualifiedStudents ("" = nothing)
IdlePost == [pc |-> "idle", jobId |-> 0, queue |-> <<>>, code |-> 0, logged |-> ""]

IdleReq == [pc |-> "idle", studentId |-> "", courseId |-> "", institutionId |-> "",
            code |-> 0, error |-> "", applicationId |-> 0]

\* ------------------------------------------------------------------------
\* POST /applications
\* ------------------------------------------------------------------------

\* the count as the design describes it: withdrawn applications left out
ExistingAppsNotWithdrawn(s, i) ==
    {a \in DOMAIN applications :
        /\ applications[a].studentId = s /\ applications[a].institutionId = i
        /\ applications[a].status # "withdrawn"}

\* db.collection('applications').where(studentId).where(institutionId).get()
ExistingApps(s, i) ==
    {a \in DOMAIN applications :
        applications[a].studentId = s /\ applications[a].institutionId = i}

\* the admitted query restricted to one status value that is never written
AdmittedAppWrongStatus(s) ==
    {a \in DOMAIN applications :
        applications[a].studentId = s /\ applications[a].status = "accepted"}

\* db.collection('applications').where(studentId).where(status == 'admitted').get()
AdmittedApp(s) ==
    {a \in DOMAIN applications :
        applications[a].studentId = s /\ applications[a].status = "admitted"}

\* the count check left out: the admitted check is the first to decide
LimitNeverReached(size) == FALSE

\* off by one: > in place of >=
LimitReachedOffByOne(size) == size > MaxPerInstitution

\* existingApps.size >= 2
LimitReached(size) == size >= MaxPerInstitution

\* res.status(c).json(...): the handler returns, its locals are dropped
Response(c, e, id) == [IdleReq EXCEPT !.pc = "done", !.code = c, !.error = e,
                                      !.applicationId = id]

Respond(r, c, e, id) == req' = [req EXCEPT ![r] = Response(c, e, id)]

\* request arrives; body validation and the per-institution count read
Submit(r, s, c, i) ==
    /\ req[r].pc \in {"idle", "done"}
    /\ IF c = "" \/ i = ""
       THEN Respond(r, 400, MsgRequired, 0)
       ELSE \E ok \in BOOLEAN :
              IF ~ok THEN Respond(r, 500, MsgFailed, 0)
              ELSE IF LimitReached(Cardinality(ExistingApps(s, i)))
              THEN Respond(r, 400, MsgLimit, 0)
              ELSE req' = [req EXCEPT ![r] = [IdleReq EXCEPT !.pc = "admitted",
                              !.studentId = s, !.courseId = c, !.institutionId = i]]
    /\ UNCHANGED <<applications, notifications, jobVars>>

\* the admitted-elsewhere read
CheckAdmitted(r) ==
    /\ req[r].pc = "admitted"
    /\ \E ok \in BOOLEAN :
          IF ~ok THEN Respond(r, 500, MsgFailed, 0)
          ELSE IF AdmittedApp(req[r].studentId) # {}
          THEN Respond(r, 400, MsgAdmitted, 0)
          ELSE req' = [req EXCEPT ![r].pc = "course"]
    /\ UNCHANGED <<applications, notifications, jobVars>>

\* the course read without the institution match
CheckCourseAnyInstitution(r) ==
    /\ req[r].pc = "course"
    /\ \E ok \in BOOLEAN :
          IF ~ok THEN Respond(r, 500, MsgFailed, 0)
          ELSE IF req[r].courseId \notin DOMAIN courses
          THEN Respond(r, 404, MsgCourseNotFound, 0)
          ELSE req' = [req EXCEPT ![r].pc = "create"]
    /\ UNCHANGED <<applications, notifications, jobVars>>

\* the course read and the institution match
CheckCourse(r) ==
    /\ req[r].pc = "course"
    /\ \E ok \in BOOLEAN :
          IF ~ok THEN Respond(r, 500, MsgFailed, 0)
          ELSE IF req[r].courseId \notin DOMAIN courses
          THEN Respond(r, 404, MsgCourseNotFound, 0)
          ELSE IF courses[req[r].courseId] # req[r].institutionId
          THEN Respond(r, 400, MsgCourseMismatch, 0)
          ELSE req' = [req EXCEPT ![r].pc = "create"]
    /\ UNCHANGED <<applications, notifications, jobVars>>

\* the document written with the status an institution would give it
NewApplicationAdmitted(r) ==
    [studentId |-> req[r].studentId, courseId |-> req[r].courseId,
     institutionId |-> req[r].institutionId, status |-> "admitted"]

\* {studentId, courseId, institutionId, ..., status: 'pending', appliedAt, updatedAt}
NewApplication(r) ==
    [studentId |-> req[r].studentId, courseId |-> req[r].courseId,
     institutionId |-> req[r].institutionId, status |-> "pending"]

\* the write done as doc(id).set(...) on the newest document in place of add(...)
CreateApplicationOverwrite(r) ==
    /\ req[r].pc = "create"
    /\ Len(applications) < MaxApps
    /\ \E ok \in BOOLEAN :
          IF ~ok
          THEN Respond(r, 500, MsgFailed, 0) /\ UNCHANGED applications
          ELSE /\ applications' =
                    IF applications = <<>> THEN <<NewApplication(r)>>
                    ELSE [applications EXCEPT ![Len(applications)] = NewApplication(r)]
               /\ req' = [req EXCEPT ![r].pc = "notify",
                                     ![r].applicationId = Len(applications')]
    /\ UNCHANGED <<notifications, jobVars>>

\* db.collection('applications').add(...)
CreateApplication(r) ==
    /\ req[r].pc = "create"
    /\ Len(applications) < MaxApps
    /\ \E ok \in BOOLEAN :
          IF ~ok
          THEN Respond(r, 500, MsgFailed, 0) /\ UNCHANGED applications
          ELSE /\ applications' = Append(applications, NewApplication(r))
               /\ req' = [req EXCEPT ![r].pc = "notify",
                                     ![r].applicationId = Len(applications) + 1]
    /\ UNCHANGED <<notifications, jobVars>>

\* db.collection('notifications').add(...) and the response
CreateNotification(r) ==
    /\ req[r].pc = "notify"
    /\ \E ok \in BOOLEAN :
          IF ~ok
          THEN Respond(r, 500, MsgFailed, 0) /\ UNCHANGED notifications
          ELSE /\ notifications' = notifications (+) SetToBag(
                      {[userId |-> req[r].studentId, title |-> "Application Submitted"]})
               /\ Respond(r, 201, MsgSubmitted, req[r].applicationId)
    /\ UNCHANGED <<applications, jobVars>>

\* an institution/admin actor changes the status of an application
SetStatus(a, st) ==
    /\ a \in DOMAIN applications
    /\ applications[a].status # st
    /\ applications' = [applications EXCEPT ![a].status = st]
    /\ UNCHANGED <<notifications, req, jobVars>>

\* users/{uid}: role and the profile fields the handlers read
Account(u, certs, years) ==
    [role |-> IF u \in Students THEN "student" ELSE "company",
     certificates |-> certs, workExperience |-> years]

\* ADMIN_ACCESS_CODE is set
Configured == config = [adminAccessCode |-> "secret"]

\* no notification, no request in flight, no response yet
Quiet ==
    /\ notifications = EmptyBag
    /\ req = [r \in Reqs |-> IdleReq]
    /\ listings = <<>>
    /\ post = IdlePost
    /\ calls = [k \in Calls |-> IdleCall]

\* an application another student submitted earlier
EarlierApplication ==
    [studentId |-> "s2", courseId |-> "c1", institutionId |-> "uni_001",
     status |-> "pending"]

\* the applications collection is empty or holds an application of student s2
Init ==
    /\ Quiet
    /\ Configured
    /\ applications \in {<<>>, <<EarlierApplication>>}
    /\ users = [u \in Students \cup Employers |-> Account(u, {}, 0)]
    /\ transcripts = {}
    /\ jobs = <<>>
    /\ jobApplications = {}

\* the submissions of student s1 handled one at a time, status changes
\* interleaved with them
Next ==
    \/ \E s \in Served, b \in Bodies : Submit("r1", s, b[1], b[2])
    \/ CheckAdmitted("r1")
    \/ CheckCourse("r1")
    \/ CreateApplication("r1")
    \/ CreateNotification("r1")
    \/ \E a \in 1..MaxApps, st \in AppStatuses : SetStatus(a, st)

Spec == Init /\ [][Next]_vars

InitRace == Init /\ applications = <<>>

\* two submissions of the same student in flight at once
NextRace ==
    \/ \E r \in Reqs, s \in Served, b \in Bodies : Submit(r, s, b[1], b[2])
    \/ \E r \in Reqs : CheckAdmitted(r)
    \/ \E r \in Reqs : CheckCourse(r)
    \/ \E r \in Reqs : CreateApplication(r)
    \/ \E r \in Reqs : CreateNotification(r)
    \/ \E a \in 1..MaxApps, st \in AppStatuses : SetStatus(a, st)

SpecRace == InitRace /\ [][NextRace]_vars

\* ------------------------------------------------------------------------
\* Properties of POST /applications
\* ------------------------------------------------------------------------

AppsAt(s, i) ==
    {a \in 1..Len(applications) :
        applications[a].studentId = s /\ applications[a].institutionId = i}

NonWithdrawnAt(s, i) == {a \in AppsAt(s, i) : applications[a].status # "withdrawn"}

PendingAt(s, i) == {a \in AppsAt(s, i) : applications[a].status = "pending"}

HasAdmitted(s) ==
    \E a \in 1..Len(applications) :
        applications[a].studentId = s /\ applications[a].status = "admitted"

\* C1: for every student and institution the number of non-withdrawn
\* applications never exceeds 2, under any interleaving of the student's
\* concurrent submissions.
C1_LimitUnderRace ==
    \A s \in Students, i \in Institutions : Cardinality(NonWithdrawnAt(s, i)) <= 2

\* C2: once a student has an admitted application, no submission of that
\* student creates an application, whatever the interleaving of the
\* submission with the status change.
C2_NoCreateOnceAdmitted ==
    [][\A r \in Reqs :
          (Len(applications') > Len(applications) /\ CreateApplication(r))
              => ~HasAdmitted(req[r].studentId)]_vars

ReasonLimit == "institution application limit reached"
ReasonAdmitted == "already admitted elsewhere"

\* C7 (as stated): with 2 pending applications to I, a further submission to
\* I is denied, creates no application and carries the reason
\* "institution application limit reached".
C7_LimitReasonAsStated ==
    [][\A r \in Reqs, s \in Students, b \in Bodies :
          (req'[r] # req[r] /\ b[1] # "" /\ Cardinality(PendingAt(s, b[2])) >= 2
             /\ Submit(r, s, b[1], b[2]))
              => /\ req'[r].pc = "done" /\ req'[r].code # 201
                 /\ applications' = applications
                 /\ req'[r].code = 400 => req'[r].error = ReasonLimit]_vars

\* C7 (amended): with 2 pending applications to I, a further submission to I
\* creates no application and is answered 400 "Maximum of 2 applications per
\* institution allowed" (500 "Failed to submit application" when the count
\* read itself fails).
C7_LimitDenied ==
    [][\A r \in Reqs, s \in Students, b \in Bodies :
          (req'[r] # req[r] /\ b[1] # "" /\ Cardinality(PendingAt(s, b[2])) >= 2
             /\ Submit(r, s, b[1], b[2]))
              => /\ applications' = applications
                 /\ \/ req'[r] = Response(400, MsgLimit, 0)
                    \/ req'[r] = Response(500, MsgFailed, 0)]_vars

C7_Witness ==
    \E r \in Reqs, s \in Served, i \in Institutions :
        /\ req[r] = Response(400, MsgLimit, 0)
        /\ Cardinality(PendingAt(s, i)) = 2
        /\ Cardinality(AppsAt(s, i)) = 2

\* C8 (as stated): a student admitted at I1 who submits to another institution
\* I2 is denied, no application is created, and the reason is
\* "already admitted elsewhere".
C8_AdmittedReasonAsStated ==
    [][\A r \in Reqs :
          (req'[r] # req[r] /\ HasAdmitted(req[r].studentId) /\ CheckAdmitted(r))
              => /\ req'[r].pc = "done" /\ req'[r].code # 201
                 /\ applications' = applications
                 /\ req'[r].code = 400 => req'[r].error = ReasonAdmitted]_vars

AdmittedElsewhere(s, i) ==
    \E a \in 1..Len(applications) :
        /\ applications[a].studentId = s /\ applications[a].status = "admitted"
        /\ applications[a].institutionId # i

\* C8 (amended): a student admitted at I1 whose submission to another
\* institution I2 reaches the admitted check creates no application and is
\* answered 400 "You are already admitted to an institution" (500 when the
\* read itself fails).
C8_AdmittedDenied ==
    [][\A r \in Reqs :
          (req'[r] # req[r] /\ AdmittedElsewhere(req[r].studentId, req[r].institutionId)
             /\ CheckAdmitted(r))
              => /\ applications' = applications
                 /\ \/ req'[r] = Response(400, MsgAdmitted, 0)
                    \/ req'[r] = Response(500, MsgFailed, 0)]_vars

C8_Witness ==
    \E r \in Reqs, s \in Served :
        /\ req[r] = Response(400, MsgAdmitted, 0)
        /\ AdmittedElsewhere(s, "uni_002")
        /\ AppsAt(s, "uni_002") = {}

\* C9 (as stated): withdrawn applications do not count toward the limit: a
\* submission to I by a student with fewer than 2 non-withdrawn applications
\* to I is not denied for the institution limit.
C9_WithdrawnNotCounted ==
    [][\A r \in Reqs, s \in Students, b \in Bodies :
          (req'[r] # req[r] /\ b[1] # "" /\ Cardinality(NonWithdrawnAt(s, b[2])) < 2
             /\ Submit(r, s, b[1], b[2]))
              => req'[r].error # MsgLimit]_vars

\* C9 (amended): applications count toward the limit whatever their status:
\* a submission to I is denied for the institution limit exactly when the
\* student has 2 or more applications to I, withdrawn ones included (the
\* count read succeeding).
C9_EveryStatusCounted ==
    [][\A r \in Reqs, s \in Students, b \in Bodies :
          (b[1] # "" /\ req'[r] # req[r] /\ req'[r].code # 500 /\ Submit(r, s, b[1], b[2]))
              => (req'[r] = Response(400, MsgLimit, 0)
                    <=> Cardinality(AppsAt(s, b[2])) >= 2)]_vars

C9_Witness ==
    \E r \in Reqs, s \in Served, i \in Institutions :
        /\ req[r] = Response(400, MsgLimit, 0)
        /\ Cardinality(AppsAt(s, i)) = 2
        /\ NonWithdrawnAt(s, i) = {}

\* C10: when the 'Application Submitted' notification write fails after the
\* application was created, the request still answers 201 with the
\* applicationId.
C10_NotificationFailureSwallowed ==
    [][\A r \in Reqs :
          (req'[r] # req[r] /\ CreateNotification(r))
              => req'[r] = Response(201, MsgSubmitted, req[r].applicationId)]_vars

\* a step of a POST /applications handler, the only student operation that
\* writes to the applications collection
StudentStep(r) ==
    \/ \E s \in Students, b \in Bodies : Submit(r, s, b[1], b[2])
    \/ CheckAdmitted(r)
    \/ CheckCourse(r)
    \/ CreateApplication(r)
    \/ CreateNotification(r)

\* C16: every application created by POST /applications has status 'pending',
\* and no step of a student's operation changes the status of an existing
\* application.
C16_CreatedPendingStatusKept ==
    [][\A r \in Reqs :
          (req'[r] # req[r] /\ StudentStep(r))
              => /\ Len(applications') >= Len(applications)
                 /\ \A a \in 1..Len(applications) :
                       applications'[a].status = applications[a].status
                 /\ \A a \in (Len(applications) + 1)..Len(applications') :
                       applications'[a].status = "pending"]_vars

\* a submission answered 201 whose application is pending, beside an
\* application whose status an institution has changed
C16_Witness ==
    \E r \in Reqs :
        /\ req[r].code = 201
        /\ applications[req[r].applicationId].status = "pending"
        /\ applications[req[r].applicationId].studentId \in Served
        /\ \E a \in 1..Len(applications) : applications[a].status = "admitted"

\* C17: the studentId, courseId and institutionId of an application record
\* never change after its creation, and no record disappears.
C17_IdentityFieldsImmutable ==
    [][/\ Len(applications') >= Len(applications)
       /\ \A a \in 1..Len(applications) :
             /\ applications'[a].studentId = applications[a].studentId
             /\ applications'[a].courseId = applications[a].courseId
             /\ applications'[a].institutionId = applications[a].institutionId]_vars

\* the earlier application of s2 after a status change and two later
\* submissions of s1
C17_Witness ==
    /\ Len(applications) = MaxApps
    /\ applications[1].studentId = "s2" /\ applications[1].courseId = "c1"
    /\ applications[1].institutionId = "uni_001"
    /\ applications[1].status = "rejected"
    /\ applications[MaxApps].studentId = "s1"

\* the application the running handler has added (docRef.id), 0 if none yet
AddedBy(r) == IF req[r].pc = "notify" THEN req[r].applicationId ELSE 0

\* C19: an application is persisted by POST /applications exactly when the
\* request is answered 201: a request answered 4xx or 5xx leaves no
\* application of its own in the collection.
C19_PersistedIffSuccess ==
    [][\A r \in Reqs :
          (req'[r] # req[r] /\ req'[r].pc = "done")
              => /\ applications' = applications
                 /\ req'[r].code = 201 <=> AddedBy(r) \in 1..Len(applications)]_vars

BadCourse(c, i) == c \notin DOMAIN courses \/ courses[c] # i

\* C20: course validation comes before the eligibility check: a submission
\* whose course does not exist or belongs to another institution is never
\* answered with an eligibility denial (institution limit, already admitted).
C20_CourseCheckedFirst ==
    [][\A r \in Reqs :
          /\ \A s \in Students, b \in Bodies :
                (req'[r] # req[r] /\ b[1] # "" /\ BadCourse(b[1], b[2])
                   /\ Submit(r, s, b[1], b[2]))
                    => req'[r].error # MsgLimit
          /\ (req'[r] # req[r] /\ BadCourse(req[r].courseId, req[r].institutionId)
                /\ CheckAdmitted(r))
                    => req'[r].error # MsgAdmitted]_vars

\* C21: the per-institution count is evaluated before the admitted check: a
\* submission of a student who has 2 or more applications at the target
\* institution and also an admitted application is denied with the
\* institution-limit answer, not the already-admitted one (500 when the
\* count read itself fails).
C21_LimitBeforeAdmitted ==
    [][\A r \in Reqs, s \in Students, b \in Bodies :
          (/\ req'[r] # req[r] /\ b[1] # ""
           /\ HasAdmitted(s) /\ Cardinality(AppsAt(s, b[2])) >= 2
           /\ Submit(r, s, b[1], b[2]))
              => /\ req'[r].pc = "done"
                 /\ req'[r].error \in {MsgLimit, MsgFailed}
                 /\ req'[r].error # MsgAdmitted]_vars

C21_Witness ==
    \E r \in Reqs, s \in Served, i \in Institutions :
        /\ req[r] = Response(400, MsgLimit, 0)
        /\ HasAdmitted(s)
        /\ Cardinality(AppsAt(s, i)) >= 2

\* C22: every application record references a course that exists and whose
\* institution is the application's institution.
C22_CourseOfInstitution ==
    \A a \in 1..Len(applications) :
        /\ applications[a].courseId \in DOMAIN courses
        /\ courses[applications[a].courseId] = applications[a].institutionId

\* applications of s1 were stored and a submission naming a course of another
\* institution has just been refused
C22_Witness ==
    /\ \E a \in 1..Len(applications) :
          applications[a].studentId = "s1" /\ applications[a].courseId = "c2"
    /\ req["r1"] = Response(400, MsgCourseMismatch, 0)

\* C25: when the submissions of a student are handled one at a time, the
\* number of that student's applications to one institution, counting every
\* status, never exceeds 2.
C25_LimitSequential ==
    \A s \in Students, i \in Institutions : Cardinality(AppsAt(s, i)) <= MaxPerInstitution

\* s1 holds 2 applications at one institution, one at the other, and a
\* further submission to the first was refused
C25_Witness ==
    /\ Cardinality(AppsAt("s1", "uni_001")) = 2
    /\ Cardinality(AppsAt("s1", "uni_002")) = 1
    /\ req["r1"] = Response(400, MsgLimit, 0)

\* ------------------------------------------------------------------------
\* GET /jobs/:jobId/applicants
\* ------------------------------------------------------------------------

NumJobApps == 3
MaxListings == 2

CertificatePoints == 5
ExperiencePoints == 8
GpaPoints == 10

\* the query narrowed to one status
ListedStatusesApplied == {"applied"}

\* where('status', 'in', ['applied', 'shortlisted', 'rejected'])
ListedStatuses == {"applied", "shortlisted", "rejected"}

\* db.collection('jobApplications').where('jobId', '==', jobId).where('status', 'in', ...)
JobAppsOf(j) == {d \in jobApplications : d.jobId = j /\ d.status \in ListedStatuses}

\* the orders in which the store may hand back the documents of a query
StoreOrders(D) ==
    {o \in [1..Cardinality(D) -> D] :
        \A a, b \in 1..Cardinality(D) : a # b => o[a] # o[b]}

\* transcripts.where(studentId).orderBy('uploadedAt', 'desc').limit(1)
LatestTranscript(s) ==
    {t \in transcripts :
        /\ t.studentId = s
        /\ \A u \in transcripts : u.studentId = s => u.uploadedAt <= t.uploadedAt}

\* gpa is kept in tenths (gpa10 = 10 * gpa), so gpa * 10 is gpa10 * GpaPoints \div 10;
\* the fields read are those of the job application document itself
calculateMatchScore(application, jobData) ==
      (IF application.transcript.present
       THEN (application.transcript.gpa10 * GpaPoints) \div 10 ELSE 0)
    + (IF application.student.present
       THEN Cardinality(application.student.certificates) * CertificatePoints ELSE 0)
    + (IF application.student.present
       THEN application.student.workExperience * ExperiencePoints ELSE 0)

\* transcript.empty ? null : transcript.docs[0].data()
FetchedTranscript(s) ==
    IF LatestTranscript(s) = {} THEN [present |-> FALSE, gpa10 |-> 0, uploadedAt |-> 0]
    ELSE LET t == CHOOSE u \in LatestTranscript(s) : TRUE
         IN  [present |-> TRUE, gpa10 |-> t.gpa10, uploadedAt |-> t.uploadedAt]

\* applicants.push({id, ...appData, student, transcript, matchScore})
Applicant(d, jobData) ==
    [id |-> d.id, studentId |-> d.studentId, appliedAt |-> d.appliedAt, status |-> d.status,
     transcript |-> FetchedTranscript(d.studentId),
     matchScore |-> calculateMatchScore(d, jobData)]

\* the comparator turned round: a.matchScore - b.matchScore
PrecedesAscending(a, b) == a.matchScore <= b.matchScore

\* comparator (a, b) => b.matchScore - a.matchScore: a stays before b unless b scores more
Precedes(a, b) == a.matchScore >= b.matchScore

\* Array.prototype.sort is stable: x, the last element of the input, goes
\* behind every element it does not beat
InsertSorted(sorted, x) ==
    LET before == {k \in 1..Len(sorted) :
                      \A m \in 1..k : Precedes(sorted[m], x)}
        n == Cardinality(before)
    IN  SubSeq(sorted, 1, n) \o <<x>> \o SubSeq(sorted, n + 1, Len(sorted))

RECURSIVE SortApplicants(_)
SortApplicants(list) ==
    IF list = <<>> THEN <<>>
    ELSE InsertSorted(SortApplicants(SubSeq(list, 1, Len(list) - 1)), list[Len(list)])

Listing(j, c, list) == [jobId |-> j, code |-> c, applicants |-> list]

\* the whole handler: job lookup, query, per-document reads, sort, response
GetApplicants(j) ==
    /\ Len(listings) < MaxListings
    /\ \E ok \in BOOLEAN :
          IF ~ok THEN listings' = Append(listings, Listing(j, 500, <<>>))
          ELSE IF j \notin DOMAIN jobs
          THEN listings' = Append(listings, Listing(j, 404, <<>>))
          ELSE \E order \in StoreOrders(JobAppsOf(j)) :
                  listings' = Append(listings, Listing(j, 200,
                      SortApplicants([k \in DOMAIN order |->
                                         Applicant(order[k], jobs[j])])))
    /\ UNCHANGED <<applications, notifications, req, authVars, dataVars, jobs, post>>

\* student records a deployment can hold: transcript gpa (in tenths, 0 = no
\* transcript), profile certificates, work experience entries
StudentRecords ==
    {[gpa10 |-> 35, certificates |-> {"AWS", "PMP"}, workExperience |-> 0],
     [gpa10 |-> 38, certificates |-> {}, workExperience |-> 0],
     [gpa10 |-> 38, certificates |-> {}, workExperience |-> 2],
     [gpa10 |-> 0, certificates |-> {"AWS"}, workExperience |-> 0]}

AppliedAts == {1, 2}

\* a job application document of student s: it may or may not carry copies of
\* the student's transcript and profile under the keys the score reads
JobApplicationDoc(id, s, at, st, embedded, rec) ==
    [id |-> id, jobId |-> 1, studentId |-> s, status |-> st, appliedAt |-> at,
     transcript |-> IF embedded /\ rec.gpa10 # 0
                    THEN [present |-> TRUE, gpa10 |-> rec.gpa10]
                    ELSE [present |-> FALSE, gpa10 |-> 0],
     student |-> IF embedded
                 THEN [present |-> TRUE, certificates |-> rec.certificates,
                       workExperience |-> rec.workExperience]
                 ELSE [present |-> FALSE, certificates |-> {}, workExperience |-> 0]]

ScenarioJob ==
    [title |-> "Cloud engineer", companyId |-> "co1",
     requirements |-> [minGPA10 |-> 30, requiredCertificates |-> {"AWS"},
                       minYearsExperience |-> 0]]

\* accounts and transcripts of students whose records are rec
StudentData(rec) ==
    /\ users = [u \in Students \cup Employers |->
                  IF u \in Students
                  THEN Account(u, rec[u].certificates, rec[u].workExperience)
                  ELSE Account(u, {}, 0)]
    /\ transcripts = {[studentId |-> u, gpa10 |-> rec[u].gpa10, uploadedAt |-> 1] :
                         u \in {v \in Students : rec[v].gpa10 # 0}}

\* a store holding one job and NumJobApps applications to it
InitRank ==
    /\ Quiet
    /\ Configured
    /\ applications = <<>>
    /\ jobs = <<ScenarioJob>>
    /\ \E rec \in [Students -> StudentRecords] :
          /\ StudentData(rec)
          /\ \E who \in [1..NumJobApps -> Students], at \in [1..NumJobApps -> AppliedAts],
                emb \in [1..NumJobApps -> BOOLEAN] :
                jobApplications =
                    {JobApplicationDoc(k, who[k], at[k], "applied", emb[k], rec[who[k]]) :
                        k \in 1..NumJobApps}

\* job ids a company can ask for: 1 is the stored job, 2 names no job
RequestedJobs == {1, 2}

NextRank == \E j \in RequestedJobs : GetApplicants(j)

SpecRank == InitRank /\ [][NextRank]_vars

\* the largest number of work experience entries of a profile
MaxExperience == 3

\* gpa values (in tenths) a transcript can carry
TranscriptGpas == {30, 35}

\* a student as the job application recorded them when it was made
Snapshot(g, e) == [gpa10 |-> g, certificates |-> {"AWS"}, workExperience |-> e]

\* a store holding one job and one application of each student to it; every
\* student has the transcript the application recorded and may have uploaded
\* another one since
InitScore ==
    /\ Quiet
    /\ Configured
    /\ applications = <<>>
    /\ jobs = <<ScenarioJob>>
    /\ \E e \in [Students -> 0..MaxExperience], g \in [Students -> TranscriptGpas],
          later \in [Students -> TranscriptGpas \cup {0}] :
          /\ users = [u \in Students \cup Employers |->
                        IF u \in Students THEN Account(u, {"AWS"}, e[u])
                        ELSE Account(u, {}, 0)]
          /\ transcripts =
                {[studentId |-> u, gpa10 |-> g[u], uploadedAt |-> 1] : u \in Students}
                \cup {[studentId |-> u, gpa10 |-> later[u], uploadedAt |-> 2] :
                         u \in {v \in Students : later[v] # 0}}
          /\ jobApplications =
                {JobApplicationDoc(1, "s1", 1, "applied", TRUE, Snapshot(g["s1"], e["s1"])),
                 JobApplicationDoc(2, "s2", 2, "applied", TRUE, Snapshot(g["s2"], e["s2"]))}

NextScore == \E j \in RequestedJobs : GetApplicants(j)

SpecScore == InitScore /\ [][NextScore]_vars

\* status values a job application document can hold; only the first three
\* are asked for by the applicants query
JobAppStatuses == {"applied", "shortlisted", "rejected", "withdrawn"}

\* ids of the job applications on file in the listing scenario
ListedIds == {1, 2, 3}

\* s1 has a transcript and both certificates, s2 has no transcript
ListRecords ==
    [s1 |-> [gpa10 |-> 35, certificates |-> {"AWS", "PMP"}, workExperience |-> 0],
     s2 |-> [gpa10 |-> 0, certificates |-> {"PMP"}, workExperience |-> 0]]

\* a store holding one job and three applications to it, of any of the two
\* students and in any status
InitList ==
    /\ Quiet
    /\ Configured
    /\ applications = <<>>
    /\ jobs = <<ScenarioJob>>
    /\ StudentData(ListRecords)
    /\ \E who \in [ListedIds -> Students], st \in [ListedIds -> JobAppStatuses] :
          jobApplications =
              {JobApplicationDoc(k, who[k], k, st[k], TRUE, ListRecords[who[k]]) :
                  k \in ListedIds}

NextList == \E j \in RequestedJobs : GetApplicants(j)

SpecList == InitList /\ [][NextList]_vars

\* ------------------------------------------------------------------------
\* Properties of the applicant ranking
\* ------------------------------------------------------------------------

\* the qualification gate of the design: gpa, required certificates, experience
QualificationGate(hasTranscript, gpa10, certificates, years, requirements) ==
    /\ hasTranscript
    /\ gpa10 >= requirements.minGPA10
    /\ requirements.requiredCertificates \subseteq certificates
    /\ years >= requirements.minYearsExperience

GpaOf(s) == IF LatestTranscript(s) = {} THEN 0
            ELSE (CHOOSE t \in LatestTranscript(s) : TRUE).gpa10

QualifiedFor(s, j) ==
    QualificationGate(LatestTranscript(s) # {}, GpaOf(s), users[s].certificates,
                      users[s].workExperience, jobs[j].requirements)

Ranked == {l \in 1..Len(listings) : listings[l].code = 200}

\* C3: the ranking is deterministic: two listings of the same job with no data
\* change between them are the same sequence, whatever order the store
\* returned the documents in.
C3_RankDeterministic ==
    \A l, m \in Ranked :
        listings[l].jobId = listings[m].jobId
            => listings[l].applicants = listings[m].applicants

\* C4: in a listing every applicant failing the qualification gate comes
\* after every applicant passing it, whatever their match scores.
C4_UnqualifiedLast ==
    \A l \in Ranked :
        LET list == listings[l].applicants
        IN  \A a, b \in 1..Len(list) :
                (a < b /\ QualifiedFor(list[b].studentId, listings[l].jobId))
                    => QualifiedFor(list[a].studentId, listings[l].jobId)

\* C5: of two applicants with the same qualified status and the same match
\* score the one with the earlier appliedAt comes first, and with equal
\* appliedAt the one with the lower id.
C5_TieBreak ==
    \A l \in Ranked :
        LET list == listings[l].applicants
            j == listings[l].jobId
        IN  \A a, b \in 1..Len(list) :
                (/\ a < b
                 /\ list[a].matchScore = list[b].matchScore
                 /\ QualifiedFor(list[a].studentId, j) = QualifiedFor(list[b].studentId, j))
                    => \/ list[a].appliedAt < list[b].appliedAt
                       \/ /\ list[a].appliedAt = list[b].appliedAt
                          /\ list[a].id < list[b].id

\* C23: a listing is ordered by matchScore, non-increasing: of two adjacent
\* entries the earlier one has a matchScore at least that of the later one.
C23_ScoreNonIncreasing ==
    \A l \in Ranked :
        LET list == listings[l].applicants
        IN  \A k \in 1..(Len(list) - 1) : list[k].matchScore >= list[k + 1].matchScore

\* a listing of three applicants with a tie and a strict descent
C23_Witness ==
    \E l \in Ranked :
        LET list == listings[l].applicants
        IN  /\ Len(list) = 3
            /\ \E k \in 1..2 : list[k].matchScore > list[k + 1].matchScore
            /\ \E k \in 1..2 : list[k].matchScore = list[k + 1].matchScore

\* the job applications a listing of job j owes: those of the job whose
\* status is applied, shortlisted or rejected
Listable(j) ==
    {d \in jobApplications :
        d.jobId = j /\ d.status \in {"applied", "shortlisted", "rejected"}}

MaxJobs == 2

\* requirements a posting can carry; minGPA10 0 and the empty set are "not specified"
JobRequirements ==
    {[minGPA10 |-> 30, requiredCertificates |-> {"AWS"}, minYearsExperience |-> 0],
     [minGPA10 |-> 0, requiredCertificates |-> {}, minYearsExperience |-> 1]}

\* companies.where('adminId', '==', uid)
CompanyOf(uid) == {c \in DOMAIN companies : companies[c].adminId = uid}

\* checkJobQualifications: "return true; // Simplified for example"
checkJobQualifications(transcript, jobData) == TRUE

\* company lookup and db.collection('jobs').add(...)
PostJob(uid, requirements) ==
    /\ post.pc \in {"idle", "done"}
    /\ Len(jobs) < MaxJobs
    /\ \E ok \in BOOLEAN :
          IF ~ok
          THEN post' = [IdlePost EXCEPT !.pc = "done", !.code = 500] /\ UNCHANGED jobs
          ELSE IF CompanyOf(uid) = {}
          THEN post' = [IdlePost EXCEPT !.pc = "done", !.code = 404] /\ UNCHANGED jobs
          ELSE /\ jobs' = Append(jobs,
                      [title |-> "Cloud engineer",
                       companyId |-> CHOOSE c \in CompanyOf(uid) : TRUE,
                       requirements |-> requirements])
               /\ post' = [IdlePost EXCEPT !.pc = "scan", !.jobId = Len(jobs) + 1]
    /\ UNCHANGED <<applications, notifications, req, authVars, dataVars, listings>>

\* notifyQualifiedStudents: users.where('role', '==', 'student').get();
\* a failure is caught and logged, the fan-out ends
NotifyScan ==
    /\ post.pc = "scan"
    /\ \E ok \in BOOLEAN :
          IF ~ok THEN post' = [post EXCEPT !.pc = "respond", !.logged = "read"]
          ELSE \E order \in StoreOrders({u \in DOMAIN users : users[u].role = "student"}) :
                  post' = [post EXCEPT !.pc = "loop", !.queue = order]
    /\ UNCHANGED <<applications, notifications, req, authVars, dataVars, jobs, listings>>

\* the notification addressed to the posting company's admin, not to the student
JobNotificationToPoster(u, j) ==
    [userId |-> "emp1", title |-> "New Job Opportunity", jobId |-> j]

\* notifications.add({userId: studentDoc.id, title: 'New Job Opportunity', ..., jobId})
JobNotification(u, j) == [userId |-> u, title |-> "New Job Opportunity", jobId |-> j]

\* the error reaches the catch of notifyQualifiedStudents: it is logged and the
\* function returns, the rest of studentsSnapshot.docs is not visited
FanOutCaught(kind) ==
    /\ post' = [post EXCEPT !.pc = "respond", !.queue = <<>>, !.logged = kind]
    /\ UNCHANGED notifications

\* one iteration of the loop over studentsSnapshot.docs: the transcript read,
\* the qualification check and the notification write
NotifyStudent ==
    /\ post.pc = "loop"
    /\ IF post.queue = <<>>
       THEN post' = [post EXCEPT !.pc = "respond"] /\ UNCHANGED notifications
       ELSE LET u == Head(post.queue) IN
            \E readOk \in BOOLEAN :
              IF ~readOk THEN FanOutCaught("read")
              ELSE IF /\ LatestTranscript(u) # {}
                      /\ checkJobQualifications(
                             CHOOSE t \in LatestTranscript(u) : TRUE, jobs[post.jobId])
              THEN \E writeOk \in BOOLEAN :
                     IF ~writeOk THEN FanOutCaught("write")
                     ELSE /\ post' = [post EXCEPT !.queue = Tail(post.queue)]
                          /\ notifications' =
                               notifications (+) SetToBag({JobNotification(u, post.jobId)})
              ELSE /\ post' = [post EXCEPT !.queue = Tail(post.queue)]
                   /\ UNCHANGED notifications
    /\ UNCHANGED <<applications, req, authVars, dataVars, jobs, listings>>

\* the response sent although the fan-out logged an error: 500 in place of 201
PostRespondAfterFailure ==
    /\ post.pc = "respond"
    /\ post' = [post EXCEPT !.pc = "done",
                            !.code = IF post.logged = "" THEN 201 ELSE 500]
    /\ UNCHANGED <<applications, notifications, req, authVars, dataVars, jobs, listings>>

\* res.status(201).json({message, jobId})
PostRespond ==
    /\ post.pc = "respond"
    /\ post' = [post EXCEPT !.pc = "done", !.code = 201]
    /\ UNCHANGED <<applications, notifications, req, authVars, dataVars, jobs, listings>>

\* accounts and transcripts exist, no job has been posted
InitNotify ==
    /\ Quiet
    /\ Configured
    /\ applications = <<>>
    /\ jobs = <<>>
    /\ jobApplications = {}
    /\ \E rec \in [Students -> StudentRecords] : StudentData(rec)

NextNotify ==
    \/ \E uid \in Employers, requirements \in JobRequirements : PostJob(uid, requirements)
    \/ NotifyScan
    \/ NotifyStudent
    \/ PostRespond

SpecNotify == InitNotify /\ [][NextNotify]_vars

\* ------------------------------------------------------------------------
\* Properties of the notification fan-out
\* ------------------------------------------------------------------------

\* C6: a 'New Job Opportunity' notification for a job goes only to students
\* who pass the qualification gate of that job (gpa at least minGPA, every
\* required certificate held, experience at least minYearsExperience).
C6_OnlyQualifiedNotified ==
    \A n \in BagToSet(notifications) :
        n.title = "New Job Opportunity" => QualifiedFor(n.userId, n.jobId)

HasTranscript(u) == \E t \in transcripts : t.studentId = u

\* number of 'New Job Opportunity' notifications of user u for job j
JobNoticesOf(u, j) ==
    CopiesIn([userId |-> u, title |-> "New Job Opportunity", jobId |-> j], notifications)

FanOutPositions == {"scan", "loop", "respond"}

\* C11: once POST /jobs has created the job record, a failure inside the
\* notification fan-out (reading students, reading a transcript, writing a
\* notification) does not abort the posting: the job stays in the jobs
\* collection and the request is answered 201 with the jobId.
C11_FanOutFailureKeepsPosting ==
    [][post.pc \in FanOutPositions
          => /\ post.jobId \in DOMAIN jobs
             /\ jobs' = jobs
             /\ post'.jobId = post.jobId
             /\ post'.pc \in FanOutPositions \cup {"done"}
             /\ post'.pc = "done" => post'.code = 201]_vars

C11_Witness ==
    /\ post.pc = "done" /\ post.code = 201
    /\ post.logged \in {"read", "write"}
    /\ post.jobId \in DOMAIN jobs

\* the users a completed fan-out of job j owes a notification: student-role
\* users with at least one transcript for whom the qualification check is true
OwedNotice(u, j) ==
    /\ users[u].role = "student"
    /\ HasTranscript(u)
    /\ checkJobQualifications(FetchedTranscript(u), jobs[j])

\* no user without a transcript or with another role has a job notification,
\* and nobody has two for the same job
NoStrayNotice ==
    \A u \in DOMAIN users, j \in DOMAIN jobs :
        /\ JobNoticesOf(u, j) <= 1
        /\ JobNoticesOf(u, j) = 1 => users[u].role = "student" /\ HasTranscript(u)

C18_WriteFailureSkipsOne ==
    (post.pc = "done" /\ post.logged = "write")
        => Cardinality({u \in DOMAIN users :
                           OwedNotice(u, post.jobId) /\ JobNoticesOf(u, post.jobId) = 0}) <= 1

\* ------------------------------------------------------------------------
\* Properties of the match score
\* ------------------------------------------------------------------------

\* the job application document a listed applicant was built from
DocOf(applicant) == CHOOSE d \in jobApplications : d.id = applicant.id

\* the cap of the design on counted work experience; the design leaves its
\* value open, here it lies inside the range of experience explored
EXPERIENCE_CAP == MaxExperience - 1

SameGpaAndCertificates(a, b) ==
    /\ DocOf(a).transcript = DocOf(b).transcript
    /\ DocOf(a).student.certificates = DocOf(b).student.certificates

\* C13: the experience component of the match score is capped: with the same
\* gpa and certificates, an applicant with more than EXPERIENCE_CAP work
\* experience entries scores the same as one with exactly EXPERIENCE_CAP.
C13_ExperienceCapped ==
    \A l \in Ranked :
        LET list == listings[l].applicants
        IN  \A a, b \in 1..Len(list) :
                (/\ SameGpaAndCertificates(list[a], list[b])
                 /\ DocOf(list[a]).student.workExperience = EXPERIENCE_CAP
                 /\ DocOf(list[b]).student.workExperience > EXPERIENCE_CAP)
                    => list[a].matchScore = list[b].matchScore

\* C14: a listed applicant who has no transcript record has academic score 0
\* and carries an explicit qualification flag saying unqualified.
C14_MissingTranscriptFlagged ==
    \A l \in Ranked :
        LET list == listings[l].applicants
        IN  \A a \in 1..Len(list) :
                ~list[a].transcript.present
                    => /\ list[a].matchScore =
                            Cardinality(DocOf(list[a]).student.certificates) * CertificatePoints
                            + DocOf(list[a]).student.workExperience * ExperiencePoints
                       /\ "qualified" \in DOMAIN list[a]
                       /\ list[a].qualified = FALSE

SameCertificatesAndExperience(a, b) == DocOf(a).student = DocOf(b).student

\* C15: the match score follows the gpa of the student's latest transcript
\* (the one with the greatest uploadedAt, which the listing returns beside the
\* score): of two applicants with the same certificates and experience the
\* one whose latest transcript has the higher gpa scores higher, and with
\* equal latest gpa they score the same.
C15_ScoreUsesLatestTranscript ==
    \A l \in Ranked :
        LET list == listings[l].applicants
        IN  \A a, b \in 1..Len(list) :
                (/\ list[a].transcript.present /\ list[b].transcript.present
                 /\ SameCertificatesAndExperience(list[a], list[b]))
                    => /\ list[a].transcript.gpa10 > list[b].transcript.gpa10
                            => list[a].matchScore > list[b].matchScore
                       /\ list[a].transcript.gpa10 = list[b].transcript.gpa10
                            => list[a].matchScore = list[b].matchScore

\* ------------------------------------------------------------------------
\* Accounts: create-profile, register, login
\* ------------------------------------------------------------------------

\* uids the identity provider knows (admin.auth().getUser succeeds)
AuthAccounts == Students \cup Employers

Configs == {[adminAccessCode |-> ""], [adminAccessCode |-> "secret"]}

ProfileBody(u, r, n, c) == [uid |-> u, role |-> r, firstName |-> n, adminCode |-> c]

\* request bodies of the profile creation routes: "ghost" is a uid the identity
\* provider does not know, an empty firstName stands for a missing field
ProfileBodies ==
    {ProfileBody("s1", "student", "Ann", ""), ProfileBody("s1", "company", "Bea", ""),
     ProfileBody("s1", "admin", "Ann", "secret"), ProfileBody("s1", "admin", "Ann", "guess"),
     ProfileBody("s1", "admin", "Ann", ""), ProfileBody("ghost", "student", "Ann", ""),
     ProfileBody("s1", "student", "", "")}

\* request bodies of POST /api/register (the uid comes from the token)
RegisterBodies ==
    {ProfileBody("", "student", "Ann", ""), ProfileBody("", "admin", "Bea", ""),
     ProfileBody("", "student", "", "")}

\* tokens a client can present
ClientTokens == {NoToken, ForgedToken, Token("s1", TRUE), Token("s1", FALSE),
                 Token("s2", TRUE)}

\* res.status(c).json(...) of an account or guarded route
CallDone(route, c) == [IdleCall EXCEPT !.pc = "done", !.route = route, !.code = c]

Answer(k, route, c) == calls' = [calls EXCEPT ![k] = CallDone(route, c)]

\* users/{uid}.set(doc): creates the document or replaces it whole
Put(uid, doc) == [u \in DOMAIN users \cup {uid} |-> IF u = uid THEN doc ELSE users[u]]

\* what the account handlers never touch
otherVars == <<applications, notifications, req, transcripts, jobs, jobApplications,
               listings, post, config>>

\* the existence read of the create-profile routes and what follows it
ProfileExistenceRead(k, route, b) ==
    \E ok \in BOOLEAN :
       IF ~ok THEN Answer(k, route, 400)
       ELSE IF b.uid \in DOMAIN users THEN Answer(k, route, 400)
       ELSE calls' = [calls EXCEPT ![k] =
                [IdleCall EXCEPT !.pc = "getUser", !.route = route, !.uid = b.uid,
                     !.role = b.role, !.firstName = b.firstName, !.adminCode = b.adminCode]]

\* POST /create-profile of routes/auth.js: field validation, admin access code,
\* existence read
CreateProfile(k, b) ==
    /\ calls[k].pc \in {"idle", "done"}
    /\ IF b.uid = "" \/ b.role = "" \/ b.firstName = ""
       THEN Answer(k, "create-profile", 400)
       ELSE IF b.role = "admin" /\ b.adminCode = ""
       THEN Answer(k, "create-profile", 403)
       ELSE IF b.role = "admin" /\ config.adminAccessCode = ""
       THEN Answer(k, "create-profile", 500)
       ELSE IF b.role = "admin" /\ b.adminCode # config.adminAccessCode
       THEN Answer(k, "create-profile", 403)
       ELSE ProfileExistenceRead(k, "create-profile", b)
    /\ UNCHANGED <<users, otherVars>>

\* POST /api/auth/create-profile of the server file: field validation and
\* existence read, no access code
CreateProfileServer(k, b) ==
    /\ calls[k].pc \in {"idle", "done"}
    /\ IF b.uid = "" \/ b.role = "" \/ b.firstName = ""
       THEN Answer(k, "api/auth/create-profile", 400)
       ELSE ProfileExistenceRead(k, "api/auth/create-profile", b)
    /\ UNCHANGED <<users, otherVars>>

\* admin.auth().getUser(uid): any error answers 400
ProfileGetUser(k) ==
    /\ calls[k].pc = "getUser"
    /\ \E ok \in BOOLEAN :
          IF ~ok \/ calls[k].uid \notin AuthAccounts
          THEN Answer(k, calls[k].route, 400)
          ELSE calls' = [calls EXCEPT ![k].pc = "set"]
    /\ UNCHANGED <<users, otherVars>>

\* {uid, email, role, profile, isVerified: false, ...}
NewProfile(k) ==
    [role |-> calls[k].role, firstName |-> calls[k].firstName, isVerified |-> FALSE]

\* users/{uid}.set(userData) and the 201 response
ProfileSet(k) ==
    /\ calls[k].pc = "set"
    /\ \E ok \in BOOLEAN :
          IF ~ok THEN Answer(k, calls[k].route, 400) /\ UNCHANGED users
          ELSE /\ users' = Put(calls[k].uid, NewProfile(k))
               /\ Answer(k, calls[k].route, 201)
    /\ UNCHANGED otherVars

\* authenticateFirebaseToken in front of POST /api/register
RegisterAuth(k, t, b) ==
    /\ calls[k].pc \in {"idle", "done"}
    /\ IF ~t.present \/ ~t.valid
       THEN Answer(k, "api/register", 401)
       ELSE calls' = [calls EXCEPT ![k] =
                [IdleCall EXCEPT !.pc = "register", !.route = "api/register", !.token = t,
                     !.uid = t.uid, !.role = b.role, !.firstName = b.firstName]]
    /\ UNCHANGED <<users, otherVars>>

\* POST /api/register: field validation, users/{uid}.set(userProfile), 201; the
\* document carries no isVerified field, which reads as false
Register(k) ==
    /\ calls[k].pc = "register"
    /\ IF calls[k].firstName = "" \/ calls[k].role = ""
       THEN Answer(k, "api/register", 400) /\ UNCHANGED users
       ELSE \E ok \in BOOLEAN :
              IF ~ok THEN Answer(k, "api/register", 500) /\ UNCHANGED users
              ELSE /\ users' = Put(calls[k].uid, NewProfile(k))
                   /\ Answer(k, "api/register", 201)
    /\ UNCHANGED otherVars

\* the token check and verifyIdToken of a login route
LoginVerify(k, route, t) ==
    /\ calls[k].pc \in {"idle", "done"}
    /\ IF ~t.present THEN Answer(k, route, 400)
       ELSE IF ~t.valid THEN Answer(k, route, 401)
       ELSE calls' = [calls EXCEPT ![k] =
                [IdleCall EXCEPT !.pc = "loginRead", !.route = route, !.token = t,
                     !.uid = t.uid]]
    /\ UNCHANGED <<users, otherVars>>

\* POST /login of routes/auth.js
Login(k, t) == LoginVerify(k, "login", t)

\* POST /api/auth/login of the server file
LoginServer(k, t) == LoginVerify(k, "api/auth/login", t)

\* users/{uid}.get(), the profile and email_verified checks; the server file's
\* handler answers here, routes/auth.js goes on to the update when the stored
\* flag is not set
LoginRead(k) ==
    /\ calls[k].pc = "loginRead"
    /\ \E ok \in BOOLEAN :
          IF ~ok THEN Answer(k, calls[k].route, 401)
          ELSE IF calls[k].uid \notin DOMAIN users THEN Answer(k, calls[k].route, 404)
          ELSE IF ~calls[k].token.email_verified THEN Answer(k, calls[k].route, 401)
          ELSE IF calls[k].route = "login" /\ ~users[calls[k].uid].isVerified
          THEN calls' = [calls EXCEPT ![k].pc = "loginUpdate"]
          ELSE Answer(k, calls[k].route, 200)
    /\ UNCHANGED <<users, otherVars>>

\* userDoc.ref.update({isVerified: true, ...}) and the response
LoginUpdate(k) ==
    /\ calls[k].pc = "loginUpdate"
    /\ \E ok \in BOOLEAN :
          IF ~ok THEN Answer(k, calls[k].route, 401) /\ UNCHANGED users
          ELSE /\ users' = [users EXCEPT ![calls[k].uid].isVerified = TRUE]
               /\ Answer(k, calls[k].route, 200)
    /\ UNCHANGED otherVars

\* no profile document exists yet; the access code is set or not
InitAccounts ==
    /\ Quiet
    /\ config \in Configs
    /\ users = [u \in {} |-> NewProfile("k1")]
    /\ applications = <<>>
    /\ transcripts = {}
    /\ jobs = <<>>
    /\ jobApplications = {}

NextAccounts ==
    \/ \E k \in Calls, b \in ProfileBodies : CreateProfile(k, b)
    \/ \E k \in Calls, b \in ProfileBodies : CreateProfileServer(k, b)
    \/ \E k \in Calls : ProfileGetUser(k)
    \/ \E k \in Calls : ProfileSet(k)
    \/ \E k \in Calls, t \in ClientTokens, b \in RegisterBodies : RegisterAuth(k, t, b)
    \/ \E k \in Calls : Register(k)
    \/ \E k \in Calls, t \in ClientTokens : Login(k, t)
    \/ \E k \in Calls, t \in ClientTokens : LoginServer(k, t)
    \/ \E k \in Calls : LoginRead(k)
    \/ \E k \in Calls : LoginUpdate(k)

SpecAccounts == InitAccounts /\ [][NextAccounts]_vars

\* ------------------------------------------------------------------------
\* Properties of the account routes
\* ------------------------------------------------------------------------

\* the step of a creation request (create-profile or register) that writes
\* the user document and answers 201
CreationWrites(k) ==
    /\ calls[k].pc \in {"set", "register"}
    /\ calls'[k].pc = "done" /\ calls'[k].code = 201

\* C26: an existing user profile document is never overwritten by a profile
\* creation: once users/{uid} exists its role and profile stay as stored, and
\* a later creation request for that uid is not answered with success.
C26_ProfileNeverOverwritten ==
    [][/\ \A u \in DOMAIN users :
             /\ u \in DOMAIN users'
             /\ users'[u].role = users[u].role
             /\ users'[u].firstName = users[u].firstName
       /\ \A k \in Calls : CreationWrites(k) => calls[k].uid \notin DOMAIN users]_vars

\* C27: a user document with role 'admin' is written only for a request that
\* supplied an admin access code equal to the configured ADMIN_ACCESS_CODE;
\* with the code missing, wrong or not configured, no document is created.
C27_AdminNeedsAccessCode ==
    [][\A k \in Calls :
          (CreationWrites(k) /\ calls[k].role = "admin")
              => /\ config.adminAccessCode # ""
                 /\ calls[k].adminCode = config.adminAccessCode]_vars

\* C29: a login answered with success (user.isVerified: true) had a token
\* with email_verified true and leaves the stored isVerified flag of the user
\* true; a login rejected for a missing profile or an unverified email leaves
\* the user documents unchanged.
C29_LoginVerifiedStored ==
    [][\A k \in Calls :
          (calls[k].pc \in {"loginRead", "loginUpdate"} /\ calls'[k].pc = "done")
              => /\ calls'[k].code = 200
                    => /\ calls[k].token.email_verified
                       /\ calls[k].uid \in DOMAIN users'
                       /\ users'[calls[k].uid].isVerified
                 /\ calls'[k].code # 200 => users' = users]_vars

\* ------------------------------------------------------------------------
\* Guarded student routes: authenticate, authorize(['student']), handler
\* ------------------------------------------------------------------------

MaxTranscripts == 2

\* authorize(['student'])
StudentRouteRoles == {"student"}

GuardedRoutes == {"transcript", "applications/:applicationId"}

\* application ids a client can ask for: 3 names no document
RequestedApplications == {1, 2, 3}

\* tokens presented to the guarded routes: emp1 is a company account, emp2 has
\* no users document
GuardTokens == {NoToken, ForgedToken, Token("s1", TRUE), Token("s2", TRUE),
                Token("emp1", TRUE), Token("emp2", TRUE)}

\* the response of a guarded route, shown with the uid and the id it was for
GuardAnswer(k, c, body) ==
    calls' = [calls EXCEPT ![k] =
                [CallDone(calls[k].route, c) EXCEPT !.uid = calls[k].uid,
                     !.param = calls[k].param, !.body = body]]

\* authenticate: bearer token extraction and verifyIdToken
Authenticate(k, t, route, id) ==
    /\ calls[k].pc \in {"idle", "done"}
    /\ IF ~t.present \/ ~t.valid
       THEN Answer(k, route, 401)
       ELSE calls' = [calls EXCEPT ![k] =
                [IdleCall EXCEPT !.pc = "authorize", !.route = route, !.token = t,
                     !.uid = t.uid, !.param = id]]
    /\ UNCHANGED <<users, otherVars>>

\* authorize with the role test left out
AuthorizeAnyRole(k) ==
    /\ calls[k].pc = "authorize"
    /\ \E ok \in BOOLEAN :
          IF ~ok \/ calls[k].uid \notin DOMAIN users
          THEN GuardAnswer(k, 500, NoBody)
          ELSE calls' = [calls EXCEPT ![k].pc = "handler"]
    /\ UNCHANGED <<users, otherVars>>

\* authorize(roles): users/{uid}.get(); a missing document makes user.role
\* throw, which the catch answers with 500
Authorize(k) ==
    /\ calls[k].pc = "authorize"
    /\ \E ok \in BOOLEAN :
          IF ~ok \/ calls[k].uid \notin DOMAIN users
          THEN GuardAnswer(k, 500, NoBody)
          ELSE IF users[calls[k].uid].role \notin StudentRouteRoles
          THEN GuardAnswer(k, 403, NoBody)
          ELSE calls' = [calls EXCEPT ![k].pc = "handler"]
    /\ UNCHANGED <<users, otherVars>>

\* POST /transcript: transcripts.add({studentId, status: 'uploaded', uploadedAt,
\* fileUrl}); the record has no gpa, which reads as 0
UploadTranscript(k) ==
    /\ calls[k].pc = "handler" /\ calls[k].route = "transcript"
    /\ Cardinality(transcripts) < MaxTranscripts
    /\ \E ok \in BOOLEAN :
          IF ~ok THEN GuardAnswer(k, 500, NoBody) /\ UNCHANGED transcripts
          ELSE /\ transcripts' = transcripts \cup
                     {[studentId |-> calls[k].uid, gpa10 |-> 0,
                       uploadedAt |-> Cardinality(transcripts) + 1]}
               /\ GuardAnswer(k, 201, NoBody)
    /\ UNCHANGED <<applications, notifications, req, users, jobs, jobApplications,
                   listings, post, config>>

\* the fields of an application a response carries
ApplicationBody(a) ==
    [studentId |-> applications[a].studentId, courseId |-> applications[a].courseId,
     institutionId |-> applications[a].institutionId, status |-> applications[a].status]

\* the handler with the ownership test left out
GetApplicationAnyOwner(k) ==
    /\ calls[k].pc = "handler" /\ calls[k].route = "applications/:applicationId"
    /\ \E ok \in BOOLEAN :
          IF ~ok THEN GuardAnswer(k, 500, NoBody)
          ELSE IF calls[k].param \notin DOMAIN applications
          THEN GuardAnswer(k, 404, NoBody)
          ELSE GuardAnswer(k, 200, ApplicationBody(calls[k].param))
    /\ UNCHANGED <<users, otherVars>>

\* GET /applications/:applicationId: document read, ownership test, course and
\* institution reads, response
GetApplication(k) ==
    /\ calls[k].pc = "handler" /\ calls[k].route = "applications/:applicationId"
    /\ \E ok \in BOOLEAN :
          IF ~ok THEN GuardAnswer(k, 500, NoBody)
          ELSE IF calls[k].param \notin DOMAIN applications
          THEN GuardAnswer(k, 404, NoBody)
          ELSE IF applications[calls[k].param].studentId # calls[k].uid
          THEN GuardAnswer(k, 403, NoBody)
          ELSE GuardAnswer(k, 200, ApplicationBody(calls[k].param))
    /\ UNCHANGED <<users, otherVars>>

\* an application of s1 next to the earlier one of s2
OwnApplication ==
    [studentId |-> "s1", courseId |-> "c2", institutionId |-> "uni_002",
     status |-> "pending"]

\* s1 and s2 are students, emp1 is a company account, emp2 has no document;
\* each student has one application
InitGuard ==
    /\ Quiet
    /\ Configured
    /\ applications = <<OwnApplication, EarlierApplication>>
    /\ users = [u \in {"s1", "s2", "emp1"} |->
                  [role |-> IF u \in Students THEN "student" ELSE "company",
                   firstName |-> "Ann", isVerified |-> TRUE]]
    /\ transcripts = {}
    /\ jobs = <<>>
    /\ jobApplications = {}

\* requests to the guarded routes on one connection while the account of s1
\* may be registered again with another role on the other
NextGuard ==
    \/ \E t \in GuardTokens, route \in GuardedRoutes, id \in RequestedApplications :
          Authenticate("k1", t, route, id)
    \/ Authorize("k1")
    \/ UploadTranscript("k1")
    \/ GetApplication("k1")
    \/ \E b \in RegisterBodies : RegisterAuth("k2", Token("s1", TRUE), b)
    \/ Register("k2")

SpecGuard == InitGuard /\ [][NextGuard]_vars

\* ------------------------------------------------------------------------
\* Properties of the guarded routes
\* ------------------------------------------------------------------------

\* C28: the handler of a route guarded by authenticate and authorize(roles)
\* runs only when the bearer token verified and the role stored in users/{uid}
\* at the moment of the authorize read is one of roles; a request with no
\* token, an invalid token, a role outside roles or no user document never
\* reaches the handler, and nothing is written to the store outside a handler.
C28_GuardBeforeHandler ==
    [][/\ \A k \in Calls :
             (calls[k].pc # "handler" /\ calls'[k].pc = "handler")
                 => /\ calls[k].token.present /\ calls[k].token.valid
                    /\ calls[k].uid = calls[k].token.uid
                    /\ calls[k].uid \in DOMAIN users
                    /\ users[calls[k].uid].role \in {"student"}
       /\ (transcripts' # transcripts \/ applications' # applications)
             => \E k \in Calls : calls[k].pc = "handler"]_vars

\* a transcript was uploaded by a student, and a later request of an account
\* whose stored role is not student was refused with 403
C28_Witness ==
    /\ \E t \in transcripts : t.studentId \in Students
    /\ calls["k1"].pc = "done" /\ calls["k1"].code = 403
    /\ calls["k1"].uid \in DOMAIN users
    /\ users[calls["k1"].uid].role # "student"

\* C30: GET /applications/:applicationId returns the application's data only
\* to the student whose uid is the application's studentId; for an application
\* of another student it answers 403 with none of the application's fields,
\* for a missing id 404 (500 without data when a store read fails).
C30_OwnerOnly ==
    [][\A k \in Calls :
          (/\ calls[k].pc = "handler" /\ calls[k].route = "applications/:applicationId"
           /\ calls'[k].pc = "done")
              => LET id == calls[k].param
                     out == calls'[k]
                 IN  /\ out.code \in {200, 403, 404, 500}
                     /\ out.code # 200 => out.body = NoBody
                     /\ out.code = 200
                           => /\ id \in 1..Len(applications)
                              /\ applications[id].studentId = calls[k].uid
                              /\ out.body.studentId = calls[k].uid
                     /\ out.code = 403
                           => /\ id \in 1..Len(applications)
                              /\ applications[id].studentId # calls[k].uid
                     /\ out.code = 404 => id \notin 1..Len(applications)
                     /\ (id \in 1..Len(applications)
                           /\ applications[id].studentId # calls[k].uid)
                           => out.code \in {403, 500}]_vars

\* a student asked for the application of another student and got 403 with
\* no field of it
C30_Witness ==
    /\ calls["k1"].pc = "done" /\ calls["k1"].route = "applications/:applicationId"
    /\ calls["k1"].code = 403 /\ calls["k1"].body = NoBody
    /\ calls["k1"].uid \in DOMAIN users /\ users[calls["k1"].uid].role = "student"
    /\ calls["k1"].param \in 1..Len(applications)
    /\ applications[calls["k1"].param].studentId # calls["k1"].uid

====
